---- MODULE Spec2Model ----
(***************************************************************************)
(* Model of pupil_src/shared_modules/video_overlay/utils/                  *)
(* image_manipulation.py: the ImageManipulator variants ScaleTransform,    *)
(* HorizontalFlip, VerticalFlip and PupilRenderer.                         *)
(*                                                                         *)
(* Floats are modelled as fixed-point numbers in thousandths (the record   *)
(* field v) with the IEEE classes nan, +inf and -inf kept apart, so that   *)
(* int(nan) -> ValueError and int(inf) -> OverflowError can be told from   *)
(* each other.  Angles are degrees; cosines are tabulated at multiples of  *)
(* 18 degrees, which covers np.linspace(0, 2*pi, num, endpoint=False) for  *)
(* num in {1, 2, 4, 5, 10, 20} and rotations by multiples of 18 degrees.   *)
(***************************************************************************)
EXTENDS Integers, Sequences, FiniteSets, TLC

(***************************************************************************)
(* Floats                                                                  *)
(***************************************************************************)
\* one, in thousandths
Unit == 1000

F(n) == [cls |-> "fin", v |-> n * Unit]

Milli(m) == [cls |-> "fin", v |-> m]

\* a Python int
IntNum(n) == [cls |-> "int", v |-> n]

NaN == [cls |-> "nan", v |-> 0]

PosInf == [cls |-> "pinf", v |-> 0]

NegInf == [cls |-> "ninf", v |-> 0]

IsFinite(x) == x.cls = "fin"

IsNaN(x) == x.cls = "nan"

Abs(n) == IF n < 0 THEN -n ELSE n

Sgn(n) == IF n < 0 THEN -1 ELSE IF n > 0 THEN 1 ELSE 0

\* n / d rounded to the nearest integer (d > 0)
RoundDiv(n, d) == Sgn(n) * ((2 * Abs(n) + d) \div (2 * d))

\* n / d truncated toward zero (d > 0): C and Python float -> int conversion
TruncDiv(n, d) == Sgn(n) * (Abs(n) \div d)

\* n / d rounded half to even (d > 0): cvRound / Python round
RoundHalfEven(n, d) ==
    LET q == Abs(n) \div d
        r == Abs(n) % d
    IN  Sgn(n) * (IF 2 * r > d \/ (2 * r = d /\ q % 2 = 1) THEN q + 1 ELSE q)

\* sign of a float that is not nan: -1, 0, 1
FSign(x) == IF x.cls = "pinf" THEN 1 ELSE IF x.cls = "ninf" THEN -1 ELSE Sgn(x.v)

FInf(s) == IF s > 0 THEN PosInf ELSE NegInf

FNeg(x) ==
    CASE x.cls = "fin" -> Milli(-x.v)
      [] x.cls = "nan" -> NaN
      [] x.cls = "pinf" -> NegInf
      [] x.cls = "ninf" -> PosInf

FAdd(x, y) ==
    IF IsNaN(x) \/ IsNaN(y) THEN NaN
    ELSE IF IsFinite(x) /\ IsFinite(y) THEN Milli(x.v + y.v)
    ELSE IF IsFinite(x) THEN y
    ELSE IF IsFinite(y) THEN x
    ELSE IF x.cls = y.cls THEN x ELSE NaN

FMul(x, y) ==
    IF IsNaN(x) \/ IsNaN(y) THEN NaN
    ELSE IF IsFinite(x) /\ IsFinite(y) THEN Milli(RoundDiv(x.v * y.v, Unit))
    ELSE IF FSign(x) * FSign(y) = 0 THEN NaN
    ELSE FInf(FSign(x) * FSign(y))

\* x / 2 and x / 2.0
FHalf(x) == IF IsFinite(x) THEN Milli(RoundDiv(x.v, 2)) ELSE x

\* x > 0 as IEEE compares it (false for nan)
FPositive(x) == x.cls = "pinf" \/ (x.cls = "fin" /\ x.v > 0)

(***************************************************************************)
(* Trigonometry in degrees, thousandths                                    *)
(***************************************************************************)
CosTable ==
    <<1000, 951, 809, 588, 309, 0, -309, -588, -809, -951,
      -1000, -951, -809, -588, -309, 0, 309, 588, 809, 951>>

\* cosine of a whole number of degrees that is a multiple of 18
CosDeg(d) == CosTable[((d % 360) \div 18) + 1]

SinDeg(d) == CosDeg(d - 90)

\* np.cos / np.sin / cos() of a float angle held in degrees
FCos(x) == IF IsFinite(x) THEN Milli(CosDeg(x.v \div Unit)) ELSE NaN

FSin(x) == IF IsFinite(x) THEN Milli(SinDeg(x.v \div Unit)) ELSE NaN

(***************************************************************************)
(* PupilRenderer.get_ellipse_points                                        *)
(***************************************************************************)
\* np.linspace(0, 2 * np.pi, num=num_pts, endpoint=False), in degrees
linspace(num_pts) == [k \in 1..num_pts |-> F((360 * (k - 1)) \div num_pts)]

\* cv2.getRotationMatrix2D(center, angle, scale): the 2x3 matrix
\*   [ alpha  beta  (1 - alpha) * cx - beta * cy ]
\*   [ -beta  alpha beta * cx + (1 - alpha) * cy ]
\* with alpha = scale * cos(angle), beta = scale * sin(angle)
getRotationMatrix2D(center, angle, scale) ==
    LET alpha == FMul(scale, FCos(angle))
        beta == FMul(scale, FSin(angle))
        one_minus_alpha == FAdd(F(1), FNeg(alpha))
    IN  << <<alpha, beta,
             FAdd(FMul(one_minus_alpha, center[1]), FNeg(FMul(beta, center[2])))>>,
           <<FNeg(beta), alpha,
             FAdd(FMul(beta, center[1]), FMul(one_minus_alpha, center[2]))>> >>

\* row (of 3) times column (of 3), as np.matmul accumulates it
Dot3(row, col) ==
    FAdd(FAdd(FMul(row[1], col[1]), FMul(row[2], col[2])), FMul(row[3], col[3]))

\* a rotation by +angle: the sign of line 112 dropped
RotationAngleSignDropped(angle) == angle

\* the rotation -angle handed to getRotationMatrix2D (line 112)
RotationAngle(angle) == FNeg(angle)

\* row k of pts (line 116): (a / 2.0 * cos(steps[k]), b / 2.0 * sin(steps[k]), 1)
PtsRow(a, b, step) == <<FMul(FHalf(a), FCos(step)), FMul(FHalf(b), FSin(step)), F(1)>>

\* row k of pts_rot (lines 118-122): rot times the row, then the centre added
PtsRotRow(rot, row, c1, c2) == <<FAdd(Dot3(rot[1], row), c1), FAdd(Dot3(rot[2], row), c2)>>

get_ellipse_points(center, axes, angle, num_pts) ==
    LET c1 == center[1]
        c2 == center[2]
        a == axes[1]
        b == axes[2]
        steps == linspace(num_pts)
        rot == getRotationMatrix2D(<<F(0), F(0)>>, RotationAngle(angle), F(1))
    IN  [k \in 1..num_pts |-> PtsRotRow(rot, PtsRow(a, b, steps[k]), c1, c2)]

(***************************************************************************)
(* Float -> integer conversions                                            *)
(***************************************************************************)
Platforms == {"x86_64", "aarch64"}

IntMax == 2147483647

IntMin == -IntMax - 1

\* Python int(x): [exc, val].  int(nan) raises ValueError, int(+-inf)
\* raises OverflowError, a finite float is truncated toward zero.
PyInt(x) ==
    CASE x.cls = "fin" -> [exc |-> "none", val |-> TruncDiv(x.v, Unit)]
      [] x.cls = "int" -> [exc |-> "none", val |-> x.v]
      [] x.cls = "nan" -> [exc |-> "ValueError", val |-> 0]
      [] OTHER -> [exc |-> "OverflowError", val |-> 0]

\* the C cast double -> int32 of np.asarray(..., dtype="i"): truncation for a
\* value in range; for nan and +-inf the result is what the machine's
\* conversion instruction leaves (cvttsd2si: INT_MIN; fcvtzs: 0 / saturated).
AsInt32(x, platform) ==
    CASE x.cls = "fin" -> TruncDiv(x.v, Unit)
      [] x.cls = "nan" -> IF platform = "x86_64" THEN IntMin ELSE 0
      [] x.cls = "pinf" -> IF platform = "x86_64" THEN IntMin ELSE IntMax
      [] x.cls = "ninf" -> IntMin

\* cv::saturate_cast<int>(double) = cvRound: round half to even
SaturateCastInt(x, platform) ==
    CASE x.cls = "fin" -> RoundHalfEven(x.v, Unit)
      [] x.cls = "nan" -> IF platform = "x86_64" THEN IntMin ELSE 0
      [] x.cls = "pinf" -> IF platform = "x86_64" THEN IntMin ELSE IntMax
      [] x.cls = "ninf" -> IntMin

(***************************************************************************)
(* Raster buffers                                                          *)
(*                                                                         *)
(* A buffer is a numpy array object: id is the object's identity, px the   *)
(* samples as seen through the object (rows of columns), ink the drawing   *)
(* primitives cv2 has written into its memory, fh / fv whether the object  *)
(* is a view with reversed column / row strides.                           *)
(***************************************************************************)
FrameWidth == 3

FrameHeight == 2

NFrames == 2

\* sample values of the decoded frames: all distinct within a frame
FramePx(k) ==
    [r \in 1..FrameHeight |-> [c \in 1..FrameWidth |-> (r - 1) * FrameWidth + c + k]]

Buffer(id, px, ink, fh, fv) ==
    [id |-> id, px |-> px, ink |-> ink, fh |-> fh, fv |-> fv, resampled |-> FALSE]

\* the frames the caller's loop hands to a manipulator
Frames == {Buffer(0, FramePx(k), <<>>, FALSE, FALSE) : k \in 0..(NFrames - 1)}

NoBuffer == [id |-> -1, px |-> <<>>, ink |-> <<>>, fh |-> FALSE, fv |-> FALSE,
             resampled |-> FALSE]

Contents(b) == [px |-> b.px, ink |-> b.ink, fh |-> b.fh, fv |-> b.fv]

Height(b) == Len(b.px)

Width(b) == IF b.px = <<>> THEN 0 ELSE Len(b.px[1])

ReverseSeq(s) == [i \in 1..Len(s) |-> s[Len(s) + 1 - i]]

\* a cyclic shift: the index arithmetic of a reversal gone wrong
RotateSeq(s) == [i \in 1..Len(s) |-> s[(i % Len(s)) + 1]]

\* a flip that shifts the columns cyclically instead of reversing them
np_fliplr_shifting(m, newid) ==
    [m EXCEPT !.id = newid, !.px = [r \in 1..Len(m.px) |-> RotateSeq(m.px[r])],
              !.fh = ~m.fh]

\* np.fliplr(m) = m[:, ::-1]: a new view, every row's columns reversed
np_fliplr(m, newid) ==
    [m EXCEPT !.id = newid, !.px = [r \in 1..Len(m.px) |-> ReverseSeq(m.px[r])],
              !.fh = ~m.fh]

\* np.flipud(m) = m[::-1, ...]: a new view, the rows reversed
np_flipud(m, newid) ==
    [m EXCEPT !.id = newid, !.px = ReverseSeq(m.px), !.fv = ~m.fv]

(***************************************************************************)
(* ScaleTransform, HorizontalFlip, VerticalFlip                            *)
(*                                                                         *)
(* The outcome of a call: exc is the exception that left apply_to ("none"  *)
(* when it returned), ret the returned buffer, after the argument buffer   *)
(* as the call left it, trace the calls made on the collaborators          *)
(* (pupil_getter, cv2 drawing functions) in order.                         *)
(***************************************************************************)
Returned(image, ret) ==
    [exc |-> "none", ret |-> ret, after |-> image, trace |-> <<>>]

Raised(image, exc, trace) ==
    [exc |-> exc, ret |-> NoBuffer, after |-> image, trace |-> trace]

\* cv2.resize(src, (0, 0), fx=fx, fy=fy): with an empty dsize it asserts
\* fx > 0 and fy > 0, takes dsize = (saturate_cast<int>(width * fx),
\* saturate_cast<int>(height * fy)) and asserts that dsize is not empty;
\* every failed assertion, and a size that cannot be allocated, is cv2.error.
\* The sample values of the resized buffer are not modelled (resampled).
cv2_resize(src, fx, fy, newid, platform) ==
    IF ~FPositive(fx) \/ ~FPositive(fy)
    THEN Raised(src, "cv2.error", <<>>)
    ELSE LET w == SaturateCastInt(FMul(F(Width(src)), fx), platform)
             h == SaturateCastInt(FMul(F(Height(src)), fy), platform)
         IN  IF w <= 0 \/ h <= 0 \/ w = IntMax \/ h = IntMax
             THEN Raised(src, "cv2.error", <<>>)
             ELSE Returned(src,
                      [id |-> newid, px |-> [r \in 1..h |-> [c \in 1..w |-> 0]],
                       ink |-> <<>>, fh |-> FALSE, fv |-> FALSE, resampled |-> TRUE])

\* a wrapper that swallows the library's error and hands the input back
ScaleTransform_swallowing(image, parameter, newid, platform) ==
    LET r == cv2_resize(image, parameter, parameter, newid, platform)
    IN  IF r.exc = "none" THEN r ELSE Returned(image, image)

ScaleTransform_apply_to(image, parameter, newid, platform) ==
    cv2_resize(image, parameter, parameter, newid, platform)

\* the guard with the is_fake_frame test left out
AppliesIgnoringFake(parameter, is_fake_frame) == parameter

\* the guard of the boolean-gated manipulators (lines 33, 42, 56)
Applies(parameter, is_fake_frame) == parameter /\ ~is_fake_frame

HorizontalFlip_apply_to(image, parameter, is_fake_frame, newid) ==
    IF Applies(parameter, is_fake_frame)
    THEN Returned(image, np_fliplr(image, newid))
    ELSE Returned(image, image)

VerticalFlip_apply_to(image, parameter, is_fake_frame, newid) ==
    IF Applies(parameter, is_fake_frame)
    THEN Returned(image, np_flipud(image, newid))
    ELSE Returned(image, image)

(***************************************************************************)
(* Pupil detections                                                        *)
(*                                                                         *)
(* A detection is None or a dict; keys is the set of keys the dict holds,  *)
(* the other fields the values under those keys.                           *)
(***************************************************************************)
Ellipse(center, axes, angle) == [center |-> center, axes |-> axes, angle |-> angle]

NoSphere == [isNone |-> TRUE, center |-> <<F(0), F(0)>>, axes |-> <<F(0), F(0)>>,
             angle |-> F(0)]

Sphere(center, axes, angle) ==
    [isNone |-> FALSE, center |-> center, axes |-> axes, angle |-> angle]

None ==
    [isNone |-> TRUE, keys |-> {}, ellipse |-> Ellipse(<<F(0), F(0)>>, <<F(0), F(0)>>, F(0)),
     confidence |-> F(0), model_confidence |-> F(0), projected_sphere |-> NoSphere]

Dict(keys, ellipse, confidence, model_confidence, projected_sphere) ==
    [isNone |-> FALSE, keys |-> keys, ellipse |-> ellipse, confidence |-> confidence,
     model_confidence |-> model_confidence, projected_sphere |-> projected_sphere]

\* Python truth value of a detection: None and the empty dict are false
Truthy(d) == ~d.isNone /\ d.keys # {}

(***************************************************************************)
(* Drawing                                                                 *)
(*                                                                         *)
(* The renderer's machine m = [ink, trace, exc]: ink is the buffer's ink,  *)
(* trace the collaborator calls so far, exc the exception in flight.       *)
(***************************************************************************)
Prim(op, pts, color, thickness, radius, axes, angle) ==
    [op |-> op, pts |-> pts, color |-> color, thickness |-> thickness,
     radius |-> radius, axes |-> axes, angle |-> angle]

GetterCall ==
    Prim("pupil_getter", <<>>, [rgb |-> <<0, 0, 0>>, alpha |-> IntNum(0)], 0, 0, <<0, 0>>, 0)

OffScreen(pt) == pt[1] \in {IntMin, IntMax} \/ pt[2] \in {IntMin, IntMax}

\* whether a primitive writes any sample: cv2 clips to the buffer, and a
\* primitive whose every vertex is at INT_MIN / INT_MAX lies outside it
Touches(prim) == \E k \in 1..Len(prim.pts) : ~OffScreen(prim.pts[k])

\* a cv2 drawing call on the buffer
Draw(m, prim) ==
    [m EXCEPT !.trace = Append(@, prim),
              !.ink = IF Touches(prim) THEN Append(@, prim) ELSE @]

Raise(m, exc) == [m EXCEPT !.exc = exc]

DefaultNumPts == 10

CircleRadius == 5

\* np.asarray(outline, dtype="i")
asarray_i(outline, platform) ==
    [k \in 1..Len(outline) |->
        <<AsInt32(outline[k][1], platform), AsInt32(outline[k][2], platform)>>]

\* the centre marker drawn before the outline
render_ellipse_marker_first(m, ellipse, color, platform) ==
    LET outline == get_ellipse_points(ellipse.center, ellipse.axes, ellipse.angle,
                                      DefaultNumPts)
        cx == PyInt(ellipse.center[1])
        cy == PyInt(ellipse.center[2])
        m1 == Draw(m, Prim("circle", << <<cx.val, cy.val>> >>, color, -1, CircleRadius,
                           <<0, 0>>, 0))
    IN  IF cx.exc # "none" THEN Raise(m, cx.exc)
        ELSE IF cy.exc # "none" THEN Raise(m, cy.exc)
        ELSE Draw(m1, Prim("polylines", asarray_i(outline, platform), color, 1, 0,
                           <<0, 0>>, 0))

render_ellipse(m, ellipse, color, platform) ==
    LET outline == get_ellipse_points(ellipse.center, ellipse.axes, ellipse.angle,
                                      DefaultNumPts)
        m1 == Draw(m, Prim("polylines", asarray_i(outline, platform), color, 1, 0,
                           <<0, 0>>, 0))
        cx == PyInt(ellipse.center[1])
        cy == PyInt(ellipse.center[2])
    IN  IF cx.exc # "none" THEN Raise(m1, cx.exc)
        ELSE IF cy.exc # "none" THEN Raise(m1, cy.exc)
        ELSE Draw(m1, Prim("circle", << <<cx.val, cy.val>> >>, color, -1, CircleRadius,
                           <<0, 0>>, 0))

\* int(confidence * 255) with round() in place of int()
ConfidenceAlphaRounded(confidence) ==
    LET x == FMul(confidence, F(255))
    IN  IF IsFinite(x) THEN [exc |-> "none", val |-> RoundHalfEven(x.v, Unit)]
        ELSE PyInt(x)

\* int(pupil_position["confidence"] * 255) (lines 67, 73)
ConfidenceAlpha(confidence) == PyInt(FMul(confidence, F(255)))

render_pupil_2d(m, pupil_position, platform) ==
    IF "ellipse" \notin pupil_position.keys THEN Raise(m, "KeyError")
    ELSE IF "confidence" \notin pupil_position.keys THEN Raise(m, "KeyError")
    ELSE LET el == pupil_position.ellipse
             conf == ConfidenceAlpha(pupil_position.confidence)
         IN  IF conf.exc # "none" THEN Raise(m, conf.exc)
             ELSE render_ellipse(m, el, [rgb |-> <<255, 127, 0>>, alpha |-> IntNum(conf.val)],
                                 platform)

\* the except clause of lines 89-92 left out
SphereCatchesNothing(exc) == FALSE

\* except ValueError: pass (lines 89-92)
SphereCatches(exc) == exc = "ValueError"

\* the first exception among conversions evaluated left to right
FirstExc(results) ==
    IF \A i \in 1..Len(results) : results[i].exc = "none" THEN "none"
    ELSE results[CHOOSE i \in 1..Len(results) :
                     /\ results[i].exc # "none"
                     /\ \A j \in 1..(i - 1) : results[j].exc = "none"].exc

\* the try block of lines 79-88: the keyword arguments are evaluated in
\* the order center, axes, angle, color, then cv2.ellipse is called, which
\* asserts that the axes are not negative
draw_sphere(m, pupil_position, platform) ==
    LET eye_ball == pupil_position.projected_sphere
        center == <<PyInt(eye_ball.center[1]), PyInt(eye_ball.center[2])>>
        axes == <<PyInt(FHalf(eye_ball.axes[1])), PyInt(FHalf(eye_ball.axes[2]))>>
        angle == PyInt(eye_ball.angle)
        conv == FirstExc(center \o axes \o <<angle>>)
    IN  IF conv # "none" THEN Raise(m, conv)
        ELSE IF "model_confidence" \notin pupil_position.keys THEN Raise(m, "KeyError")
        ELSE IF axes[1].val < 0 \/ axes[2].val < 0 THEN Raise(m, "cv2.error")
        ELSE Draw(m, Prim("ellipse", << <<center[1].val, center[2].val>> >>,
                          [rgb |-> <<26, 230, 0>>,
                           alpha |-> FMul(F(255), pupil_position.model_confidence)],
                          2, 0, <<axes[1].val, axes[2].val>>, angle.val))

render_pupil_3d(m, pupil_position, platform) ==
    IF "ellipse" \notin pupil_position.keys THEN Raise(m, "KeyError")
    ELSE IF "confidence" \notin pupil_position.keys THEN Raise(m, "KeyError")
    ELSE LET el == pupil_position.ellipse
             conf == ConfidenceAlpha(pupil_position.confidence)
             m1 == render_ellipse(m, el, [rgb |-> <<0, 0, 255>>, alpha |-> IntNum(conf.val)],
                                  platform)
             eye_ball_is_none == \/ "projected_sphere" \notin pupil_position.keys
                                 \/ pupil_position.projected_sphere.isNone
             m2 == draw_sphere(m1, pupil_position, platform)
         IN  IF conf.exc # "none" THEN Raise(m, conf.exc)
             ELSE IF m1.exc # "none" \/ eye_ball_is_none THEN m1
             ELSE IF SphereCatches(m2.exc) THEN m1
             ELSE m2

(***************************************************************************)
(* PupilRenderer.apply_to                                                  *)
(***************************************************************************)
\* what self.pupil_getter() does: raises, or returns (pupil_2d, pupil_3d)
GetterResult(raises, p2d, p3d) == [raises |-> raises, p2d |-> p2d, p3d |-> p3d]

NoGetter == GetterResult(FALSE, None, None)

\* the detection source asked once for each of the two detections
FetchTwice == <<GetterCall, GetterCall>>

\* the calls of self.pupil_getter made by line 57
Fetch == <<GetterCall>>

\* the two detections rendered in the opposite order
PupilRenderer_3d_first(image, parameter, is_fake_frame, getter, platform) ==
    IF Applies(parameter, is_fake_frame)
    THEN IF getter.raises THEN Raised(image, "GetterError", Fetch)
         ELSE LET m0 == [ink |-> image.ink, trace |-> Fetch, exc |-> "none"]
                  m2d == IF Truthy(getter.p3d)
                         THEN render_pupil_3d(m0, getter.p3d, platform) ELSE m0
                  m3d == IF m2d.exc = "none" /\ Truthy(getter.p2d)
                         THEN render_pupil_2d(m2d, getter.p2d, platform) ELSE m2d
                  drawn == [image EXCEPT !.ink = m3d.ink]
              IN  IF m3d.exc = "none"
                  THEN [exc |-> "none", ret |-> drawn, after |-> drawn, trace |-> m3d.trace]
                  ELSE [exc |-> m3d.exc, ret |-> NoBuffer, after |-> drawn,
                        trace |-> m3d.trace]
    ELSE Returned(image, image)

PupilRenderer_apply_to(image, parameter, is_fake_frame, getter, platform) ==
    IF Applies(parameter, is_fake_frame)
    THEN IF getter.raises THEN Raised(image, "GetterError", Fetch)
         ELSE LET m0 == [ink |-> image.ink, trace |-> Fetch, exc |-> "none"]
                  m2d == IF Truthy(getter.p2d)
                         THEN render_pupil_2d(m0, getter.p2d, platform) ELSE m0
                  m3d == IF m2d.exc = "none" /\ Truthy(getter.p3d)
                         THEN render_pupil_3d(m2d, getter.p3d, platform) ELSE m2d
                  drawn == [image EXCEPT !.ink = m3d.ink]
              IN  IF m3d.exc = "none"
                  THEN [exc |-> "none", ret |-> drawn, after |-> drawn, trace |-> m3d.trace]
                  ELSE [exc |-> m3d.exc, ret |-> NoBuffer, after |-> drawn,
                        trace |-> m3d.trace]
    ELSE Returned(image, image)

(***************************************************************************)
(* Inputs                                                                  *)
(***************************************************************************)
MaxCalls == 2

MaxChain == 2

ConfSteps == 4

MaxFactorHalves == 4

Confidences == {Milli((1000 * k) \div ConfSteps) : k \in 0..ConfSteps}

GoodEllipse == Ellipse(<<F(3), F(2)>>, <<F(4), F(2)>>, F(90))

Ellipses2D ==
    {GoodEllipse, Ellipse(<<F(3), NaN>>, <<F(4), F(2)>>, F(90))}

Ellipses3D ==
    {Ellipse(<<F(2), F(3)>>, <<F(2), F(4)>>, F(0)),
     Ellipse(<<NaN, F(3)>>, <<F(2), F(4)>>, F(0))}

Spheres ==
    {NoSphere,
     Sphere(<<F(2), F(2)>>, <<F(6), F(6)>>, F(0)),
     Sphere(<<F(2), F(2)>>, <<NaN, F(6)>>, F(0)),
     Sphere(<<F(2), F(2)>>, <<F(6), F(6)>>, NaN),
     Sphere(<<F(2), F(2)>>, <<PosInf, F(6)>>, F(0))}

Keys2D == {{}, {"ellipse"}, {"confidence"}, {"ellipse", "confidence"}}

Detections2D ==
    {None}
    \cup {Dict({"ellipse", "confidence"}, GoodEllipse, c, F(0), NoSphere) : c \in Confidences}
    \cup {Dict(k, e, Milli(500), F(0), NoSphere) : k \in Keys2D, e \in Ellipses2D}

Detections3D ==
    {None}
    \cup {Dict({"ellipse", "confidence", "model_confidence"}, e, c, F(1), NoSphere) :
              e \in Ellipses3D, c \in Confidences}
    \cup {Dict(k \cup {"projected_sphere"}, e, Milli(500), Milli(500), sp) :
              k \in {{"ellipse", "confidence"}, {"ellipse", "confidence", "model_confidence"}},
              e \in Ellipses3D, sp \in Spheres}
    \cup {Dict({"confidence"}, CHOOSE e \in Ellipses3D : TRUE, Milli(500), F(1), NoSphere)}

GetterResults ==
    {GetterResult(TRUE, None, None)}
    \cup {GetterResult(FALSE, p2d, p3d) : p2d \in Detections2D, p3d \in Detections3D}

ScaleFactors ==
    {NaN, PosInf, NegInf}
    \cup {Milli(500 * k) : k \in (-MaxFactorHalves)..MaxFactorHalves}

Angles == {F(0), F(90), F(180), F(270), F(-90)}

NumPts == {1, 2, 4, DefaultNumPts}

(***************************************************************************)
(* State                                                                   *)
(***************************************************************************)
VARIABLES
    inflight,   \* the call the caller has made and that has not run yet
    hist,       \* the calls completed on the current frame's buffers, oldest first
    nCalls,     \* PupilRenderer.apply_to calls completed on the renderer so far
    nEnabled,   \* ... of which with parameter true on a frame that is not fake
    nGetter,    \* calls the renderer has made of its pupil_getter
    args,       \* arguments of the last get_ellipse_points call
    points      \* its result

vars == <<inflight, hist, nCalls, nEnabled, nGetter, args, points>>

Invocation(manip, image, parameter, factor, is_fake_frame, getter) ==
    [manip |-> manip, image |-> image, parameter |-> parameter, factor |-> factor,
     is_fake_frame |-> is_fake_frame, getter |-> getter]

Idle == Invocation("none", NoBuffer, FALSE, F(0), FALSE, NoGetter)

Call(inv, out) ==
    [manip |-> inv.manip, image |-> inv.image, parameter |-> inv.parameter,
     factor |-> inv.factor, is_fake_frame |-> inv.is_fake_frame, getter |-> inv.getter,
     exc |-> out.exc, ret |-> out.ret, after |-> out.after, trace |-> out.trace]

NoArgs == [center |-> <<F(0), F(0)>>, axes |-> <<F(0), F(0)>>, angle |-> F(0), num_pts |-> 0]

Init ==
    /\ inflight = Idle
    /\ hist = <<>>
    /\ nCalls = 0
    /\ nEnabled = 0
    /\ nGetter = 0
    /\ args = NoArgs
    /\ points = <<>>

last == hist[Len(hist)]

\* an id no buffer of the current pipeline has
NewId(image) == image.id + 1

(***************************************************************************)
(* The flip / scale pipeline                                               *)
(***************************************************************************)
\* the previous manipulator of the pipeline returned a buffer to pass on
Chained == hist # <<>> /\ Len(hist) < MaxChain /\ last.exc = "none" /\ ~last.ret.resampled

\* The caller hands a manipulator the next frame of its loop, or the buffer
\* the previous manipulator of the pipeline returned.
InvokePipeline ==
    /\ inflight = Idle
    /\ \E fresh \in BOOLEAN :
           /\ ~fresh => Chained
           /\ hist' = IF fresh THEN <<>> ELSE hist
           /\ \E image \in (IF fresh THEN Frames ELSE {last.ret}) :
                  \/ \E parameter \in ScaleFactors :
                         inflight' = Invocation("ScaleTransform", image, FALSE, parameter,
                                                FALSE, NoGetter)
                  \/ \E manip \in {"HorizontalFlip", "VerticalFlip"},
                        parameter \in BOOLEAN, is_fake_frame \in BOOLEAN :
                         inflight' = Invocation(manip, image, parameter, F(0),
                                                is_fake_frame, NoGetter)
    /\ UNCHANGED <<nCalls, nEnabled, nGetter, args, points>>

Scale ==
    /\ inflight.manip = "ScaleTransform"
    /\ \E platform \in Platforms :
           hist' = Append(hist, Call(inflight,
                       ScaleTransform_apply_to(inflight.image, inflight.factor,
                                               NewId(inflight.image), platform)))
    /\ inflight' = Idle
    /\ UNCHANGED <<nCalls, nEnabled, nGetter, args, points>>

HFlip ==
    /\ inflight.manip = "HorizontalFlip"
    /\ hist' = Append(hist, Call(inflight,
                   HorizontalFlip_apply_to(inflight.image, inflight.parameter,
                                           inflight.is_fake_frame, NewId(inflight.image))))
    /\ inflight' = Idle
    /\ UNCHANGED <<nCalls, nEnabled, nGetter, args, points>>

VFlip ==
    /\ inflight.manip = "VerticalFlip"
    /\ hist' = Append(hist, Call(inflight,
                   VerticalFlip_apply_to(inflight.image, inflight.parameter,
                                         inflight.is_fake_frame, NewId(inflight.image))))
    /\ inflight' = Idle
    /\ UNCHANGED <<nCalls, nEnabled, nGetter, args, points>>

NextPipeline == InvokePipeline \/ Scale \/ HFlip \/ VFlip

SpecPipeline == Init /\ [][NextPipeline]_vars

(***************************************************************************)
(* The renderer                                                            *)
(***************************************************************************)
GetterCalls(trace) == Len(SelectSeq(trace, LAMBDA e : e.op = "pupil_getter"))

\* The caller's loop hands the renderer the next frame: the renderer is the
\* first manipulator of its pipeline and draws on the frame as decoded.
InvokeRender ==
    /\ inflight = Idle
    /\ nCalls < MaxCalls
    /\ hist' = <<>>
    /\ \E image \in Frames, parameter \in BOOLEAN, is_fake_frame \in BOOLEAN :
           inflight' = Invocation("PupilRenderer", image, parameter, F(0),
                                  is_fake_frame, NoGetter)
    /\ UNCHANGED <<nCalls, nEnabled, nGetter, args, points>>

\* getter is what the detection source does if this call asks it; the call
\* record keeps it only when it was asked
Render ==
    /\ inflight.manip = "PupilRenderer"
    /\ \E getter \in GetterResults, platform \in Platforms :
           \E out \in {PupilRenderer_apply_to(inflight.image, inflight.parameter,
                                             inflight.is_fake_frame, getter, platform)} :
           LET asked == GetterCalls(out.trace) > 0
           IN  /\ hist' = <<Call([inflight EXCEPT !.getter = IF asked THEN getter ELSE NoGetter],
                                 out)>>
               /\ nGetter' = nGetter + GetterCalls(out.trace)
    /\ nCalls' = nCalls + 1
    /\ nEnabled' = nEnabled + (IF inflight.parameter /\ ~inflight.is_fake_frame THEN 1 ELSE 0)
    /\ inflight' = Idle
    /\ UNCHANGED <<args, points>>

Next == InvokeRender \/ Render

Spec == Init /\ [][Next]_vars

(***************************************************************************)
(* get_ellipse_points on its own                                           *)
(***************************************************************************)
InvokePoints ==
    /\ inflight = Idle
    /\ \E c1 \in {F(0), F(1), NaN}, c2 \in {F(0), F(-2)}, a \in {F(2), F(3)},
          b \in {F(2), F(4)}, angle \in Angles, num_pts \in NumPts :
           args' = [center |-> <<c1, c2>>, axes |-> <<a, b>>, angle |-> angle,
                    num_pts |-> num_pts]
    /\ points' = <<>>
    /\ inflight' = [Idle EXCEPT !.manip = "get_ellipse_points"]
    /\ UNCHANGED <<hist, nCalls, nEnabled, nGetter>>

GetEllipsePoints ==
    /\ inflight.manip = "get_ellipse_points"
    /\ points' = get_ellipse_points(args.center, args.axes, args.angle, args.num_pts)
    /\ inflight' = Idle
    /\ UNCHANGED <<hist, nCalls, nEnabled, nGetter, args>>

NextPoints == InvokePoints \/ GetEllipsePoints

SpecPoints == Init /\ [][NextPoints]_vars

(***************************************************************************)
(* Properties                                                              *)
(***************************************************************************)
IsFlip(c) == c.manip \in {"HorizontalFlip", "VerticalFlip"}

Enabled(c) == c.parameter /\ ~c.is_fake_frame

Rendered == hist # <<>> /\ last.manip = "PupilRenderer"

Ops(trace) == [i \in 1..Len(trace) |-> trace[i].op]

Rgbs(trace) == [i \in 1..Len(trace) |-> trace[i].color.rgb]

Rgb2D == <<255, 127, 0>>

Rgb3D == <<0, 0, 255>>

RgbSphere == <<26, 230, 0>>

\* a detection render_pupil_2d / the ellipse part of render_pupil_3d draws in full
Renderable(d) ==
    /\ {"ellipse", "confidence"} \subseteq d.keys
    /\ IsFinite(d.confidence)
    /\ IsFinite(d.ellipse.center[1])
    /\ IsFinite(d.ellipse.center[2])

HasSphere(d) == "projected_sphere" \in d.keys /\ ~d.projected_sphere.isNone

\* C1: a flip called with parameter false or on a fake frame returns the
\* very object it was given, and that object's contents are as before.
C1_FlipGuardReturnsInput ==
    \A i \in 1..Len(hist) :
        (IsFlip(hist[i]) /\ ~Enabled(hist[i])) =>
            /\ hist[i].exc = "none"
            /\ hist[i].ret.id = hist[i].image.id
            /\ Contents(hist[i].ret) = Contents(hist[i].image)
            /\ hist[i].after = hist[i].image

C1_Witness ==
    /\ Len(hist) = 2
    /\ hist[1].manip = "VerticalFlip" /\ Enabled(hist[1])
    /\ hist[2].manip = "HorizontalFlip" /\ hist[2].parameter /\ hist[2].is_fake_frame
    /\ hist[2].ret.id = hist[2].image.id
    /\ hist[2].ret.id # hist[1].image.id

\* C2: two HorizontalFlip calls in a row, both with parameter true on a frame
\* that is not fake, the second on the buffer the first returned, yield a
\* buffer whose contents equal those of the original image.
C2_DoubleHFlipRestores ==
    \A i \in 1..(Len(hist) - 1) :
        (/\ hist[i].manip = "HorizontalFlip" /\ Enabled(hist[i])
         /\ hist[i + 1].manip = "HorizontalFlip" /\ Enabled(hist[i + 1])
         /\ hist[i + 1].image = hist[i].ret) =>
            /\ hist[i + 1].exc = "none"
            /\ Contents(hist[i + 1].ret) = Contents(hist[i].image)

C2_Witness ==
    /\ Len(hist) = 2
    /\ hist[1].manip = "HorizontalFlip" /\ Enabled(hist[1])
    /\ hist[2].manip = "HorizontalFlip" /\ Enabled(hist[2])
    /\ hist[2].image = hist[1].ret
    /\ hist[1].ret.px # hist[1].image.px
    /\ hist[2].ret.px = hist[1].image.px

\* C3: PupilRenderer.apply_to with parameter false, or on a fake frame, makes
\* no call of pupil_getter, draws nothing and returns the input untouched.
C3_DisabledRendererIsInert ==
    (Rendered /\ ~Enabled(last)) =>
        /\ GetterCalls(last.trace) = 0
        /\ last.trace = <<>>
        /\ last.exc = "none"
        /\ last.ret = last.image
        /\ last.after = last.image

C3_Witness ==
    /\ Rendered /\ last.parameter /\ last.is_fake_frame
    /\ last.trace = <<>> /\ last.ret.id = last.image.id
    /\ nCalls = 2 /\ nGetter = 1

\* C4: ScaleTransform.apply_to with a factor that is not positive or not
\* finite raises (the resize error propagates) and returns no buffer.
C4_BadFactorRaises ==
    \A i \in 1..Len(hist) :
        (/\ hist[i].manip = "ScaleTransform"
         /\ (~IsFinite(hist[i].factor) \/ hist[i].factor.v <= 0)) =>
            /\ hist[i].exc = "cv2.error"
            /\ hist[i].ret = NoBuffer

C4_Witness ==
    /\ hist # <<>> /\ last.manip = "ScaleTransform"
    /\ last.factor = PosInf /\ last.exc = "cv2.error"

\* C5: an enabled render whose 3D detection has a projected_sphere with nan
\* in its axes or its angle, the detections being drawable otherwise,
\* returns without raising; the sphere alone is skipped: the 2D outline and
\* centre marker (if a 2D detection is present) and the 3D outline and centre
\* marker are drawn.
C5_NanSphereOnlySkipsSphere ==
    (/\ Rendered /\ Enabled(last) /\ ~last.getter.raises
     /\ Truthy(last.getter.p3d) /\ Renderable(last.getter.p3d)
     /\ HasSphere(last.getter.p3d)
     /\ \/ IsNaN(last.getter.p3d.projected_sphere.axes[1])
        \/ IsNaN(last.getter.p3d.projected_sphere.axes[2])
        \/ IsNaN(last.getter.p3d.projected_sphere.angle)
     /\ Truthy(last.getter.p2d) => Renderable(last.getter.p2d)) =>
        /\ last.exc = "none"
        /\ last.ret.id = last.image.id
        /\ Ops(last.trace) =
               <<"pupil_getter">>
               \o (IF Truthy(last.getter.p2d) THEN <<"polylines", "circle">> ELSE <<>>)
               \o <<"polylines", "circle">>
        /\ Rgbs(SubSeq(last.trace, 2, Len(last.trace))) =
               (IF Truthy(last.getter.p2d) THEN <<Rgb2D, Rgb2D>> ELSE <<>>)
               \o <<Rgb3D, Rgb3D>>
        /\ last.ret.ink = last.image.ink \o SubSeq(last.trace, 2, Len(last.trace))

C5_Witness ==
    /\ Rendered /\ Enabled(last) /\ last.exc = "none"
    /\ Truthy(last.getter.p2d) /\ Truthy(last.getter.p3d)
    /\ HasSphere(last.getter.p3d)
    /\ IsNaN(last.getter.p3d.projected_sphere.angle)
    /\ Len(last.trace) = 5
    /\ Len(last.ret.ink) = 4

Drawings(trace) == SelectSeq(trace, LAMBDA e : e.op # "pupil_getter")

Touching(trace) == SelectSeq(Drawings(trace), Touches)

LacksKeys(d) == ~({"ellipse", "confidence"} \subseteq d.keys)

\* the call fails before any cv2 drawing function has been called
FailsBeforeDrawing(c) ==
    \/ c.getter.raises
    \/ Truthy(c.getter.p2d) /\ LacksKeys(c.getter.p2d)
    \/ ~Truthy(c.getter.p2d) /\ Truthy(c.getter.p3d) /\ LacksKeys(c.getter.p3d)

\* C6 as claimed: whenever PupilRenderer.apply_to raises, the contents of
\* the input buffer are what they were before the call.
C6_FailedRenderLeavesBufferUntouched ==
    (Rendered /\ last.exc # "none") => Contents(last.after) = Contents(last.image)

\* C6 as amended: a render whose guard fails leaves the buffer untouched; a
\* render that raises leaves on the buffer exactly the drawings made before
\* the failure: none if it fails before its first drawing (the detection
\* source raises, or the first detection rendered lacks its ellipse or its
\* confidence), and the whole 2D overlay if the 2D detection was drawn and
\* the failure came with the 3D detection.
C6_FailedRenderKeepsEarlierDrawings ==
    Rendered =>
        /\ ~Enabled(last) => last.after = last.image
        /\ last.exc # "none" =>
               /\ last.ret = NoBuffer
               /\ last.after.id = last.image.id
               /\ last.after.px = last.image.px
               /\ last.after.ink = last.image.ink \o Touching(last.trace)
               /\ FailsBeforeDrawing(last) =>
                      /\ Drawings(last.trace) = <<>>
                      /\ Contents(last.after) = Contents(last.image)
               /\ (Truthy(last.getter.p2d) /\ Renderable(last.getter.p2d)) =>
                      /\ Len(last.after.ink) >= Len(last.image.ink) + 2
                      /\ Rgbs(SubSeq(last.after.ink, Len(last.image.ink) + 1,
                                     Len(last.image.ink) + 2)) = <<Rgb2D, Rgb2D>>
                      /\ Contents(last.after) # Contents(last.image)

C6_Witness ==
    /\ Rendered /\ last.exc = "KeyError"
    /\ Truthy(last.getter.p2d) /\ Renderable(last.getter.p2d)
    /\ Truthy(last.getter.p3d) /\ LacksKeys(last.getter.p3d)
    /\ Len(last.after.ink) = 2
    /\ last.image.ink = <<>>

\* the layer a drawing call belongs to, by function and colour
Rank(e) ==
    CASE e.op = "polylines" /\ e.color.rgb = Rgb2D -> 1
      [] e.op = "circle" /\ e.color.rgb = Rgb2D -> 2
      [] e.op = "polylines" /\ e.color.rgb = Rgb3D -> 3
      [] e.op = "circle" /\ e.color.rgb = Rgb3D -> 4
      [] e.op = "ellipse" /\ e.color.rgb = RgbSphere -> 5
      [] OTHER -> 0

HasRank(trace, r) == \E i \in 1..Len(trace) : Rank(trace[i]) = r

\* C7: an enabled render returns the buffer object it was given, and its
\* drawing calls come in the order 2D outline, 2D centre marker, 3D outline,
\* 3D centre marker, sphere outline, each layer present when its detection
\* is; the sphere is drawn only right after the 3D outline and marker.
C7_DrawingOrder ==
    (Rendered /\ Enabled(last)) =>
        /\ last.exc = "none" =>
               /\ last.ret.id = last.image.id
               /\ last.ret = last.after
               /\ HasRank(last.trace, 1) <=> Truthy(last.getter.p2d)
               /\ HasRank(last.trace, 2) <=> Truthy(last.getter.p2d)
               /\ HasRank(last.trace, 3) <=> Truthy(last.getter.p3d)
               /\ HasRank(last.trace, 4) <=> Truthy(last.getter.p3d)
               /\ HasRank(last.trace, 5) => HasSphere(last.getter.p3d)
        /\ \A i \in 2..Len(last.trace) :
               /\ Rank(last.trace[i]) >= 1
               /\ Rank(last.trace[i - 1]) < Rank(last.trace[i])
               /\ Rank(last.trace[i]) = 5 =>
                      /\ i >= 4
                      /\ Rank(last.trace[i - 1]) = 4
                      /\ Rank(last.trace[i - 2]) = 3
        /\ last.after.ink = last.image.ink \o Touching(last.trace)

C7_Witness ==
    /\ Rendered /\ Enabled(last) /\ last.exc = "none"
    /\ Ops(last.trace) =
           <<"pupil_getter", "polylines", "circle", "polylines", "circle", "ellipse">>
    /\ last.ret.id = last.image.id
    /\ Len(last.ret.ink) = 5

\* C8: the renderer has called pupil_getter exactly once for each completed
\* call with parameter true on a frame that is not fake, and never otherwise;
\* within such a call the getter call comes first, before any drawing,
\* also when the getter reports no detection, and what is drawn is what
\* this call's getter returned.
C8_GetterOncePerEnabledCall ==
    /\ nGetter = nEnabled
    /\ Rendered =>
           /\ Enabled(last) =>
                  /\ GetterCalls(last.trace) = 1
                  /\ last.trace[1] = GetterCall
           /\ ~Enabled(last) => GetterCalls(last.trace) = 0
           /\ (Enabled(last) /\ ~last.getter.raises /\ ~Truthy(last.getter.p2d)
                   /\ ~Truthy(last.getter.p3d)) => last.trace = <<GetterCall>>
           /\ (HasRank(last.trace, 1) \/ HasRank(last.trace, 2)) => Truthy(last.getter.p2d)
           /\ (HasRank(last.trace, 3) \/ HasRank(last.trace, 4)) => Truthy(last.getter.p3d)

C8_Witness ==
    /\ Rendered /\ Enabled(last)
    /\ nCalls = 2 /\ nEnabled = 2 /\ nGetter = 2
    /\ ~last.getter.raises /\ last.getter.p2d = None /\ last.getter.p3d = None
    /\ last.trace = <<GetterCall>>

\* the confidence the colour of a drawing call was computed from
ConfidenceOf(c, e) ==
    IF e.color.rgb = Rgb2D THEN c.getter.p2d.confidence ELSE c.getter.p3d.confidence

EllipseDrawings(trace) == SelectSeq(trace, LAMBDA e : Rank(e) \in 1..4)

\* C9 as claimed: the alpha of the 2D colour (255, 127, 0, alpha) and of the
\* 3D colour (0, 0, 255, alpha) is round(confidence * 255).
C9_AlphaIsRounded ==
    Rendered =>
        \A i \in 1..Len(EllipseDrawings(last.trace)) :
            LET e == EllipseDrawings(last.trace)[i]
            IN  e.color.alpha =
                    IntNum(RoundHalfEven(ConfidenceOf(last, e).v * 255, Unit))

\* C9 as amended: the alpha of the 2D colour (255, 127, 0, alpha) and of the
\* 3D colour (0, 0, 255, alpha) is confidence * 255 truncated to an integer:
\* the integer alpha in 0..255 with alpha <= confidence * 255 < alpha + 1.
C9_AlphaIsTruncated ==
    Rendered =>
        \A i \in 1..Len(Drawings(last.trace)) :
            LET e == Drawings(last.trace)[i]
                c == ConfidenceOf(last, e)
            IN  e.op \in {"polylines", "circle"} =>
                    /\ e.color.rgb \in {Rgb2D, Rgb3D}
                    /\ e.color.alpha.cls = "int"
                    /\ e.color.alpha.v \in 0..255
                    /\ e.color.alpha.v * Unit <= c.v * 255
                    /\ c.v * 255 < (e.color.alpha.v + 1) * Unit

C9_Witness ==
    /\ Rendered /\ last.exc = "none"
    /\ Truthy(last.getter.p2d) /\ last.getter.p2d.confidence = Milli(250)
    /\ Truthy(last.getter.p3d) /\ last.getter.p3d.confidence = Milli(750)
    /\ Len(last.trace) >= 5
    /\ last.trace[2].color = [rgb |-> Rgb2D, alpha |-> IntNum(63)]
    /\ last.trace[5].color = [rgb |-> Rgb3D, alpha |-> IntNum(191)]

\* (a/2 * cos(t), b/2 * sin(t)) rotated about the origin by theta degrees in
\* the drawing library's convention (x' = x cos + y sin, y' = -x sin + y cos),
\* then translated by the centre
RotateThenTranslate(center, axes, theta, t) ==
    LET x == FMul(FHalf(axes[1]), FCos(t))
        y == FMul(FHalf(axes[2]), FSin(t))
    IN  <<FAdd(FAdd(FMul(x, FCos(theta)), FMul(y, FSin(theta))), center[1]),
          FAdd(FAdd(FNeg(FMul(x, FSin(theta))), FMul(y, FCos(theta))), center[2])>>

PointsReturned == inflight = Idle /\ args.num_pts > 0

\* C10: get_ellipse_points(center, axes, angle, num_pts=N) returns N points,
\* point k (k = 0..N-1) being (a/2 cos t_k, b/2 sin t_k), t_k = 360 k / N
\* degrees, rotated about the origin by -angle degrees and translated by
\* center; for center (0,0), axes (2,2), angle 0, N = 4 they are (1,0), (0,1),
\* (-1,0), (0,-1) in this order.
C10_EllipsePoints ==
    PointsReturned =>
        /\ Len(points) = args.num_pts
        /\ \A k \in 0..(args.num_pts - 1) :
               points[k + 1] =
                   RotateThenTranslate(args.center, args.axes, FNeg(args.angle),
                                       F((360 * k) \div args.num_pts))
        /\ (/\ args.center = <<F(0), F(0)>> /\ args.axes = <<F(2), F(2)>>
            /\ args.angle = F(0) /\ args.num_pts = 4) =>
               points = << <<F(1), F(0)>>, <<F(0), F(1)>>, <<F(-1), F(0)>>, <<F(0), F(-1)>> >>

C10_Witness ==
    /\ PointsReturned
    /\ args.center = <<F(1), F(-2)>> /\ args.axes = <<F(2), F(4)>>
    /\ args.angle = F(90) /\ args.num_pts = 4
    /\ points = << <<F(1), F(-1)>>, <<F(-1), F(-2)>>, <<F(1), F(-3)>>, <<F(3), F(-2)>> >>

====
